---- MODULE Spec2Model ----
(***************************************************************************)
(* Model of static/js/policy_tinymce_init.js: the script registers one     *)
(* DOMContentLoaded listener; the listener returns when the global         *)
(* `tinymce` is undefined and otherwise calls tinymce.init once with a     *)
(* freshly built configuration object.                                     *)
(*                                                                         *)
(* The host page is the environment: it loads or removes the library,      *)
(* evaluates the script, queues and dispatches DOMContentLoaded events,    *)
(* and the library may mutate configuration objects it was handed.         *)
(***************************************************************************)
EXTENDS Integers, Sequences, FiniteSets, TLC

VARIABLES
    tinymce,     \* binding of the global identifier: "undefined", "stub", "throwing"
    registered,  \* TRUE once the script has run document.addEventListener
    regLib,      \* history: value of tinymce when the script ran ("none" before)
    tasks,       \* host event loop: queued callbacks awaiting dispatch
    events,      \* number of DOMContentLoaded events the host has queued
    runs,        \* history: one record per execution of the listener
    recorded,    \* calls received by tinymce.init, in order, as seen at call time
    heap         \* configuration objects allocated so far (current field values)

vars == <<tinymce, registered, regLib, tasks, events, runs, recorded, heap>>

\* Bound on the number of DOMContentLoaded events the host queues.
MaxEvents == 3

\* Possible bindings of the global identifier tinymce.  "stub" records the
\* call and returns; "throwing" records the call and throws.
Libs == {"undefined", "stub", "throwing"}

\* height: 420
Height == 420

\* Configuration literal of a build that sets another editor height.
ConfigOtherHeight ==
    [ selector     |-> "textarea.tinymce-policy",
      menubar      |-> "file edit view insert format tools table help",
      plugins      |-> "advlist autolink lists link charmap searchreplace visualblocks visualchars fullscreen table code wordcount",
      toolbar      |-> "undo redo | blocks | bold italic underline | alignleft aligncenter alignright alignjustify | bullist numlist outdent indent | link table | removeformat | fullscreen code",
      toolbar_mode |-> "sliding",
      height       |-> 400,
      branding     |-> FALSE,
      convert_urls |-> FALSE ]

\* Configuration literal of a build that drops one plugin and swaps two.
ConfigOtherPlugins ==
    [ selector     |-> "textarea.tinymce-policy",
      menubar      |-> "file edit view insert format tools table help",
      plugins      |-> "advlist autolink link lists charmap searchreplace visualblocks visualchars fullscreen table wordcount",
      toolbar      |-> "undo redo | blocks | bold italic underline | alignleft aligncenter alignright alignjustify | bullist numlist outdent indent | link table | removeformat | fullscreen code",
      toolbar_mode |-> "sliding",
      height       |-> Height,
      branding     |-> FALSE,
      convert_urls |-> FALSE ]

\* The object literal passed to tinymce.init.
Config ==
    [ selector     |-> "textarea.tinymce-policy",
      menubar      |-> "file edit view insert format tools table help",
      plugins      |-> "advlist autolink lists link charmap searchreplace visualblocks visualchars fullscreen table code wordcount",
      toolbar      |-> "undo redo | blocks | bold italic underline | alignleft aligncenter alignright alignjustify | bullist numlist outdent indent | link table | removeformat | fullscreen code",
      toolbar_mode |-> "sliding",
      height       |-> Height,
      branding     |-> FALSE,
      convert_urls |-> FALSE ]

\* A handler without the presence test.
NoPresenceCheck(lib) == FALSE

\* typeof tinymce === "undefined"
LibraryAbsent(lib) == lib = "undefined"

\* A listener that captured the library when the script ran.
ObservedAtRegistration(reg, cur) == reg

\* The binding the handler's typeof test reads: the global as it is when the
\* handler runs (reg is the binding the script saw when it registered).
ObservedLib(reg, cur) == cur

\* A handler that calls tinymce.init twice.
AttemptsTwice(lib) == IF LibraryAbsent(lib) THEN 0 ELSE 2

\* Number of times one execution of the handler reaches the tinymce.init
\* call expression: none after the early return, one otherwise.
Attempts(lib) == IF LibraryAbsent(lib) THEN 0 ELSE 1

\* A handler that keeps one module-level configuration object and passes it
\* on every call.
AllocShared(h) ==
    [ heap |-> IF h = <<>> THEN <<Config>> ELSE h, ref |-> 1 ]

\* Evaluating the object literal allocates a new object holding the literal
\* values; ref is its address.
AllocConfig(h) ==
    [ heap |-> Append(h, Config), ref |-> Len(h) + 1 ]

\* n successive calls tinymce.init({...}): each builds its argument and the
\* library receives it (run is the index of the handler execution, 0 when
\* there is none; stale tells whether the library had by then mutated an
\* object of an earlier call).
RECURSIVE CallInit(_, _, _, _)
CallInit(n, run, h, rec) ==
    IF n = 0
    THEN [ heap |-> h, recorded |-> rec ]
    ELSE LET a == AllocConfig(h)
         IN  CallInit(n - 1, run, a.heap,
                      Append(rec, [ run   |-> run,
                                    ref   |-> a.ref,
                                    cfg   |-> a.heap[a.ref],
                                    stale |-> \E i \in DOMAIN h : h[i] # Config ]))

\* A handler that wraps the call in try/catch and swallows the error.
OutcomeCaught(lib, attempts) == "return"

\* How the handler ends: normally after the early return or after a call
\* that returns; with the exception of the call otherwise (evaluating the
\* identifier of an undefined global is a ReferenceError).  Nothing catches.
Outcome(lib, attempts) ==
    IF attempts = 0 THEN "return"
    ELSE IF lib = "stub" THEN "return" ELSE "throw"

\* A handler that re-queues itself when the library is absent.
ScheduledRetry(lib) == IF lib = "undefined" THEN <<"retry">> ELSE <<>>

\* Callbacks the handler schedules for later: none in either branch.
Scheduled(lib) == <<>>

\* A handler that remembers it has initialised and skips further calls.
HandlerBodyDedup(seen, lib, run, h, rec) ==
    LET n    == IF rec # <<>> THEN 0 ELSE Attempts(seen)
        made == IF lib = "undefined" THEN 0 ELSE n
        c    == CallInit(made, run, h, rec)
    IN  [ inits     |-> made,
          outcome   |-> Outcome(lib, n),
          heap      |-> c.heap,
          recorded  |-> c.recorded,
          scheduled |-> Scheduled(seen) ]

\* One execution of the listener function.  seen is the binding its typeof
\* test reads, lib the binding the call expression resolves.
HandlerBody(seen, lib, run, h, rec) ==
    LET n    == Attempts(seen)
        made == IF lib = "undefined" THEN 0 ELSE n
        c    == CallInit(made, run, h, rec)
    IN  [ inits     |-> made,
          outcome   |-> Outcome(lib, n),
          heap      |-> c.heap,
          recorded  |-> c.recorded,
          scheduled |-> Scheduled(seen) ]

\* A script that calls the function instead of passing it as the listener.
RegisterInvokes(lib, h, rec) ==
    LET r == HandlerBody(lib, lib, 0, h, rec)
    IN  [ heap |-> r.heap, recorded |-> r.recorded ]

\* Effect of evaluating the script on the library's side: the function
\* expression is passed to addEventListener, not called.
RegisterEffect(lib, h, rec) == [ heap |-> h, recorded |-> rec ]

Init ==
    /\ tinymce \in Libs
    /\ registered = FALSE
    /\ regLib = "none"
    /\ tasks = <<>>
    /\ events = 0
    /\ runs = <<>>
    /\ recorded = <<>>
    /\ heap = <<>>

\* The CDN script defines the global.
LoadLibrary(l) ==
    /\ tinymce = "undefined"
    /\ l # "undefined"
    /\ tinymce' = l
    /\ UNCHANGED <<registered, regLib, tasks, events, runs, recorded, heap>>

\* The host deletes the global.
RemoveLibrary ==
    /\ tinymce # "undefined"
    /\ tinymce' = "undefined"
    /\ UNCHANGED <<registered, regLib, tasks, events, runs, recorded, heap>>

\* The page evaluates the script: document.addEventListener(...).
Register ==
    /\ ~registered
    /\ registered' = TRUE
    /\ regLib' = tinymce
    /\ LET e == RegisterEffect(tinymce, heap, recorded)
       IN  /\ heap' = e.heap
           /\ recorded' = e.recorded
    /\ UNCHANGED <<tinymce, tasks, events, runs>>

\* The host queues a DOMContentLoaded event (end of parsing, or a page
\* script calling dispatchEvent).
FireTrigger ==
    /\ events < MaxEvents
    /\ events' = events + 1
    /\ tasks' = Append(tasks, "DOMContentLoaded")
    /\ UNCHANGED <<tinymce, registered, regLib, runs, recorded, heap>>

\* The event loop runs the next task: a DOMContentLoaded event goes to the
\* listener once it is registered; a callback the handler queued itself
\* (Scheduled, none in this script) would run the handler again.
Dispatch ==
    /\ tasks # <<>>
    /\ registered \/ Head(tasks) # "DOMContentLoaded"
    /\ LET r == HandlerBody(ObservedLib(regLib, tinymce), tinymce,
                            Len(runs) + 1, heap, recorded)
       IN  /\ runs' = Append(runs, [ task    |-> Head(tasks),
                                     lib     |-> tinymce,
                                     inits   |-> r.inits,
                                     outcome |-> r.outcome ])
           /\ heap' = r.heap
           /\ recorded' = r.recorded
           /\ tasks' = Tail(tasks) \o r.scheduled
    /\ UNCHANGED <<tinymce, registered, regLib, events>>

\* The event is dispatched before the script has registered its listener.
DispatchUnheard ==
    /\ tasks # <<>>
    /\ ~registered
    /\ Head(tasks) = "DOMContentLoaded"
    /\ tasks' = Tail(tasks)
    /\ UNCHANGED <<tinymce, registered, regLib, events, runs, recorded, heap>>

\* The library writes to a configuration object it was handed earlier.
LibraryMutates(i) ==
    /\ tinymce # "undefined"
    /\ i \in DOMAIN heap
    /\ heap[i].height # 0
    /\ heap' = [heap EXCEPT ![i].height = 0]
    /\ UNCHANGED <<tinymce, registered, regLib, tasks, events, runs, recorded>>

Next ==
    \/ \E l \in Libs : LoadLibrary(l)
    \/ RemoveLibrary
    \/ Register
    \/ FireTrigger
    \/ Dispatch
    \/ DispatchUnheard
    \/ \E i \in DOMAIN heap : LibraryMutates(i)

Spec == Init /\ [][Next]_vars

(***************************************************************************)
(* Derived notions used by the properties.                                 *)
(***************************************************************************)

\* Number of tinymce.init invocations so far (the stub's call count).
Calls == Len(recorded)

\* The two-state view: Initialized once tinymce.init has been invoked.
Initialized == Calls > 0

\* This step is an execution of the listener.
HandlerStep == Len(runs') = Len(runs) + 1

\* This step is the dispatch of a DOMContentLoaded event to the listener.
TriggerStep ==
    /\ HandlerStep
    /\ registered
    /\ tasks # <<>>
    /\ Head(tasks) = "DOMContentLoaded"

\* Configurations the library received during handler execution i.
CallsOfRun(i) == { k \in DOMAIN recorded : recorded[k].run = i }

\* The words of a list joined by single spaces.
RECURSIVE Join(_)
Join(ws) ==
    IF ws = <<>> THEN ""
    ELSE IF Len(ws) = 1 THEN ws[1]
    ELSE ws[1] \o " " \o Join(Tail(ws))

ExpectedPlugins ==
    << "advlist", "autolink", "lists", "link", "charmap", "searchreplace",
       "visualblocks", "visualchars", "fullscreen", "table", "code",
       "wordcount" >>

EightOptions ==
    { "selector", "menubar", "plugins", "toolbar", "toolbar_mode", "height",
      "branding", "convert_urls" }

(***************************************************************************)
(* C1: when tinymce is undefined as the handler runs, the handler is a     *)
(* silent no-op: it makes no tinymce.init call, returns normally, and      *)
(* leaves the call record, the configuration objects, the Initialized      *)
(* flag, the registration and the library binding unchanged; it schedules  *)
(* nothing.                                                                *)
(***************************************************************************)
C1_AbsentIsNoOp ==
    [][ (HandlerStep /\ tinymce = "undefined") =>
            /\ runs'[Len(runs')].inits = 0
            /\ runs'[Len(runs')].outcome = "return"
            /\ recorded' = recorded
            /\ heap' = heap
            /\ Initialized' = Initialized
            /\ tasks' = Tail(tasks)
            /\ UNCHANGED <<tinymce, registered, regLib, events>> ]_vars

C1_Witness ==
    /\ runs # <<>>
    /\ runs[Len(runs)].lib = "undefined"
    /\ runs[Len(runs)].outcome = "return"
    /\ recorded = <<>>

(***************************************************************************)
(* C2: every execution of the handler with tinymce present invokes         *)
(* tinymce.init exactly once, and the configuration it passes has          *)
(* selector "textarea.tinymce-policy" and height 420.                      *)
(***************************************************************************)
C2_PresentInitOnce ==
    \A i \in DOMAIN runs :
        runs[i].lib # "undefined" =>
            /\ runs[i].inits = 1
            /\ Cardinality(CallsOfRun(i)) = 1
            /\ \A k \in CallsOfRun(i) :
                   /\ recorded[k].cfg.selector = "textarea.tinymce-policy"
                   /\ recorded[k].cfg.height = 420

C2_Witness ==
    /\ Len(runs) = 1
    /\ runs[1].lib = "stub"
    /\ Calls = 1
    /\ recorded[1].cfg.height = 420

(***************************************************************************)
(* C3: the number of tinymce.init calls never exceeds the number of        *)
(* trigger firings, and when the library was present at every firing the   *)
(* number of calls equals the number of firings (no deduplication).        *)
(***************************************************************************)
C3_CallsEqualFirings ==
    /\ Calls <= Len(runs)
    /\ Len(runs) <= events
    /\ (\A i \in DOMAIN runs : runs[i].lib # "undefined") => Calls = Len(runs)

C3_Witness ==
    /\ Len(runs) >= 2
    /\ \A i \in DOMAIN runs : runs[i].lib # "undefined"
    /\ Calls = Len(runs)

(***************************************************************************)
(* C4 as stated: in every reachable state the number of tinymce.init       *)
(* calls is at most 1.                                                     *)
(***************************************************************************)
C4_AtMostOneCall == Calls <= 1

(***************************************************************************)
(* C4 amended: as long as the trigger has been delivered to the handler    *)
(* at most once, the number of tinymce.init calls is at most 1.            *)
(***************************************************************************)
C4_AtMostOneCallPerSingleFiring == Len(runs) <= 1 => Calls <= 1

C4_Witness ==
    /\ Len(runs) = 1
    /\ Calls = 1
    /\ tasks = <<>>

(***************************************************************************)
(* C5: every configuration received by tinymce.init has the literal's      *)
(* values, so any two recorded configurations are field-for-field equal,   *)
(* also when the library had mutated an object of an earlier call; each    *)
(* call passes an object of its own.                                       *)
(***************************************************************************)
C5_ConfigInvariant ==
    \A j, k \in DOMAIN recorded :
        /\ recorded[j].cfg = recorded[k].cfg
        /\ \A f \in EightOptions : recorded[j].cfg[f] = recorded[k].cfg[f]
        /\ (j # k => recorded[j].ref # recorded[k].ref)

C5_Witness ==
    /\ Calls >= 2
    /\ recorded[2].stale
    /\ heap[recorded[1].ref] # recorded[1].cfg
    /\ recorded[2].cfg = recorded[1].cfg

(***************************************************************************)
(* C6: with tinymce a call-recording stub, after the trigger has fired     *)
(* once the stub's call count is 1 and the recorded configuration has      *)
(* exactly the eight options, toolbar_mode "sliding", branding false,      *)
(* convert_urls false, and plugins equal to the twelve expected names in   *)
(* order joined by single spaces.                                          *)
(***************************************************************************)
C6_StubRecordsConfig ==
    (Len(runs) = 1 /\ runs[1].lib = "stub") =>
        /\ Calls = 1
        /\ DOMAIN recorded[1].cfg = EightOptions
        /\ recorded[1].cfg.toolbar_mode = "sliding"
        /\ recorded[1].cfg.branding = FALSE
        /\ recorded[1].cfg.convert_urls = FALSE
        /\ recorded[1].cfg.plugins = Join(ExpectedPlugins)

C6_Witness ==
    /\ Len(runs) = 1
    /\ runs[1].lib = "stub"
    /\ runs[1].outcome = "return"
    /\ recorded[1].cfg.plugins = Join(ExpectedPlugins)

(***************************************************************************)
(* C7 as stated: Initialized is entered only by a step in which the        *)
(* trigger is dispatched while the library is present, it is never left,   *)
(* and from Initialized no further tinymce.init call is made.              *)
(***************************************************************************)
C7_TwoStateNoReentry ==
    [][ /\ (~Initialized /\ Initialized') =>
               (TriggerStep /\ tinymce # "undefined")
        /\ Initialized => Initialized'
        /\ Initialized => Calls' = Calls ]_vars

(***************************************************************************)
(* C7 amended: Initialized is entered only by a step in which the trigger  *)
(* is dispatched while the library is present, and it is never left; it    *)
(* is re-entered: each further dispatch of the trigger with the library    *)
(* present makes one more tinymce.init call, and no other step makes one.  *)
(***************************************************************************)
C7_TwoStateWithReentry ==
    [][ /\ (~Initialized /\ Initialized') =>
               (TriggerStep /\ tinymce # "undefined")
        /\ Initialized => Initialized'
        /\ (Initialized /\ TriggerStep /\ tinymce # "undefined") =>
               Calls' = Calls + 1
        /\ (Initialized /\ ~(TriggerStep /\ tinymce # "undefined")) =>
               Calls' = Calls ]_vars

C7_Witness ==
    /\ Calls >= 2
    /\ Len(runs) >= 2
    /\ runs[1].inits = 1
    /\ runs[2].inits = 1

(***************************************************************************)
(* C8: no retry.  tinymce.init is invoked only in a step that dispatches   *)
(* a DOMContentLoaded event to the listener; the handler runs only in      *)
(* such steps; a run with the library absent schedules nothing; and the    *)
(* library becoming present afterwards causes no call.                     *)
(***************************************************************************)
C8_NoRetry ==
    [][ /\ recorded' # recorded => TriggerStep
        /\ HandlerStep => TriggerStep
        /\ (HandlerStep /\ tinymce = "undefined") => tasks' = Tail(tasks)
        /\ (tinymce = "undefined" /\ tinymce' # "undefined") =>
               recorded' = recorded ]_vars

C8_Witness ==
    /\ runs # <<>>
    /\ \A i \in DOMAIN runs : runs[i].lib = "undefined"
    /\ tinymce = "stub"
    /\ tasks = <<>>
    /\ Calls = 0

(***************************************************************************)
(* C9: when tinymce.init throws, the exception leaves the handler, and     *)
(* that execution of the handler has made exactly one tinymce.init call.   *)
(***************************************************************************)
C9_ThrowPropagates ==
    \A i \in DOMAIN runs :
        runs[i].lib = "throwing" =>
            /\ runs[i].outcome = "throw"
            /\ runs[i].inits = 1
            /\ Cardinality(CallsOfRun(i)) = 1

C9_Witness ==
    \E i \in DOMAIN runs :
        /\ runs[i].lib = "throwing"
        /\ runs[i].outcome = "throw"
        /\ Cardinality(CallsOfRun(i)) = 1

(***************************************************************************)
(* C10: the presence test is evaluated when the handler runs.  The step    *)
(* that registers the listener makes no tinymce.init call; a dispatch to   *)
(* the listener makes one call when the library is present at that         *)
(* moment and none when it is absent, whatever it was at registration.     *)
(***************************************************************************)
C10_CheckedAtTriggerTime ==
    [][ /\ (~registered /\ registered') => recorded' = recorded
        /\ (TriggerStep /\ regLib = "undefined" /\ tinymce # "undefined") =>
               (Calls' = Calls + 1 /\ runs'[Len(runs')].inits = 1)
        /\ (TriggerStep /\ regLib # "undefined" /\ tinymce = "undefined") =>
               (Calls' = Calls /\ runs'[Len(runs')].inits = 0) ]_vars

C10_Witness ==
    /\ regLib = "undefined"
    /\ Len(runs) = 1
    /\ runs[1].lib = "stub"
    /\ runs[1].inits = 1
    /\ Calls = 1

====
